---- MODULE Spec2Model ----
(***************************************************************************)
(* HRRR viewer (src/hrrr_viewer.py): the parallel run of process_full_run, *)
(* the per-hour pipeline of process_single_hour and the SIGALRM based      *)
(* timeout() context manager, as one state machine.                        *)
(*                                                                         *)
(* The main process builds a multiprocessing.Pool, hands every forecast    *)
(* hour to it with imap_unordered and collects the results in completion   *)
(* order.  Every pool worker is a separate single-threaded process with    *)
(* its own signal handler, alarm and matplotlib figure registry.           *)
(***************************************************************************)
EXTENDS Integers, Sequences, FiniteSets, TLC

\* ------------------------------------------------------------------ bounds
MaxHours == 1        \* largest max_forecast_hours tried
MaxWorkers == 2      \* largest num_workers tried
MaxLeadHour == 101   \* largest forecast hour whose file name and key are compared
MaxCpus == 9         \* largest cpu_count() tried
MaxLoopHours == 9    \* largest max_forecast_hours of the runs with whole-task steps
MaxKeyHour == 11     \* largest forecast hour whose key is resolved in a step

\* ------------------------------------------------------- program constants
FetchTimeout == 60   \* with timeout(60)
PlotTimeout == 30    \* with timeout(30)
WorkerCap == 8       \* min(cpu_count(), 8)
ProgressEvery == 5   \* if completed % 5 == 0
Latency == 3         \* timedelta(hours=3)

None == "None"
SIG_DFL == "SIG_DFL"   \* the SIGALRM action of a fresh process
NotGiven == -1         \* num_workers=None

VARIABLES
    cpu_count,           \* what multiprocessing.cpu_count() returns on this host
    now,                 \* what datetime.utcnow() returns when process_full_run starts
    model_time,          \* local of process_full_run
    resolved,            \* the calls of construct_s3_path made so far, with their results
    max_forecast_hours,  \* argument of process_full_run
    num_workers,         \* argument of process_full_run
    mpc,                 \* position of the main process in process_full_run
    taskq,               \* the pool's task queue: hours not yet taken by a worker
    outq,                \* results put by workers, not yet yielded by imap_unordered
    generated_files,     \* local of process_full_run
    failed_hours,        \* local of process_full_run
    completed,           \* local of process_full_run
    progress,            \* the counts k of the "Progress: k/N complete" lines printed
    critical,            \* the "Critical error" handler of process_full_run ran
    summary,             \* what the summary printed: [n |-> .., failed |-> ..]
    returned,            \* the value process_full_run returned
    wk,                  \* per worker process: pc, hour, alarm, handler, ...
    log,                 \* per hour: the last status line its task printed
    fault,               \* per hour: the exception a collaborator raised in its task
    expired,             \* per hour: SIGALRM deliveries in its fetch (f) and render (r) stage
    decoded,             \* per hour: number of xr.open_dataset calls
    files,               \* per hour: number of savefig writes of its image
    dispatched,          \* per hour: number of times a worker took the task
    produced,            \* per hour: number of results put on the result queue
    arrival,             \* the hours in the order the collection loop received them
    crashed              \* hours whose worker process died while running them

\* what the host and the clock provide
envVars == << cpu_count, now, model_time, resolved >>

vars == << envVars, max_forecast_hours, num_workers, mpc, taskq, outq, generated_files,
           failed_hours, completed, progress, critical, summary, returned, wk, log, fault,
           expired, decoded, files, dispatched, produced, arrival, crashed >>

Hours == 0 .. max_forecast_hours
Workers == 1 .. num_workers

\* ------------------------------------------------------------ pure helpers
Digit == << "0", "1", "2", "3", "4", "5", "6", "7", "8", "9" >>

RECURSIVE Decimal(_)
Decimal(n) == IF n < 10 THEN Digit[n + 1]
              ELSE Decimal(n \div 10) \o Digit[(n % 10) + 1]

\* f"{forecast_hour:02d}"
Fmt02d(n) == IF n < 10 THEN "0" \o Digit[n + 1] ELSE Decimal(n)

\* (variant: the template leaves the hour out)
Filepath_nohour(h) == "output/" \o "hrrr_temp" \o ".png"

\* filename = f'hrrr_temp_f{forecast_hour:02d}.png'; filepath = output_dir / filename
Filepath(h) == "output/" \o "hrrr_temp_f" \o Fmt02d(h) \o ".png"

\* forecast_hours = list(range(0, max_forecast_hours + 1))
RECURSIVE Range(_, _)
Range(a, b) == IF a >= b THEN << >> ELSE << a >> \o Range(a + 1, b)

\* (variant: the last hour is left out, range(0, max_forecast_hours))
forecast_hours_short == Range(0, max_forecast_hours)

forecast_hours == Range(0, max_forecast_hours + 1)

\* list.sort(key=lambda x: x[0]): a stable insertion into a sorted prefix
RECURSIVE InsertByKey(_, _)
InsertByKey(s, x) ==
    IF s = << >> THEN << x >>
    ELSE IF x[1] < s[Len(s)][1]
         THEN InsertByKey(SubSeq(s, 1, Len(s) - 1), x) \o << s[Len(s)] >>
         ELSE Append(s, x)

RECURSIVE SortByHour(_)
SortByHour(s) ==
    IF s = << >> THEN << >>
    ELSE InsertByKey(SortByHour(SubSeq(s, 1, Len(s) - 1)), s[Len(s)])

\* sorted(failed_hours)
RECURSIVE InsertInt(_, _)
InsertInt(s, x) ==
    IF s = << >> THEN << x >>
    ELSE IF x < s[Len(s)]
         THEN InsertInt(SubSeq(s, 1, Len(s) - 1), x) \o << s[Len(s)] >>
         ELSE Append(s, x)

RECURSIVE Sorted(_)
Sorted(s) ==
    IF s = << >> THEN << >>
    ELSE InsertInt(Sorted(SubSeq(s, 1, Len(s) - 1)), s[Len(s)])

\* [f[1] for f in generated_files]
PathsOf(s) == [i \in 1 .. Len(s) |-> s[i][2]]

SeqSet(s) == {s[i] : i \in 1 .. Len(s)}

\* ----------------------------------------------------------------- datetime
\* a datetime: [year, month, day, hour, minute, second, microsecond]
NoTime == [year |-> 0, month |-> 0, day |-> 0, hour |-> 0, minute |-> 0,
           second |-> 0, microsecond |-> 0]

IsLeap(y) == (y % 4 = 0 /\ y % 100 /= 0) \/ y % 400 = 0

DaysInMonth(y, m) ==
    IF m = 2 THEN (IF IsLeap(y) THEN 29 ELSE 28)
    ELSE IF m \in {4, 6, 9, 11} THEN 30 ELSE 31

\* the calendar day before the day of t
PrevDay(t) ==
    IF t.day > 1 THEN [t EXCEPT !.day = @ - 1]
    ELSE IF t.month > 1
         THEN [t EXCEPT !.month = @ - 1, !.day = DaysInMonth(t.year, t.month - 1)]
         ELSE [t EXCEPT !.year = @ - 1, !.month = 12, !.day = 31]

\* t - timedelta(hours=n), for n of at most a day
MinusHours(t, n) ==
    IF t.hour >= n THEN [t EXCEPT !.hour = @ - n]
    ELSE [PrevDay(t) EXCEPT !.hour = t.hour + 24 - n]

\* (variant: the time is not rounded down to the hour)
get_latest_model_run_unrounded(t) == MinusHours(t, Latency)

\* get_latest_model_run, lines 54-59, with t the reading of datetime.utcnow()
get_latest_model_run(t) ==
    [MinusHours(t, Latency) EXCEPT !.minute = 0, !.second = 0, !.microsecond = 0]

\* strftime('%Y%m%d') and strftime('%H'), for years of four digits
date_str(t) == Decimal(t.year) \o Fmt02d(t.month) \o Fmt02d(t.day)
hour_str(t) == Fmt02d(t.hour)

\* (variant: the run hour is written where the forecast hour belongs)
construct_s3_path_nolead(t, forecast_hour) ==
    "noaa-hrrr-bdp-pds/hrrr." \o date_str(t) \o "/conus/hrrr.t" \o hour_str(t)
        \o "z.wrfsfcf" \o hour_str(t) \o ".grib2"

\* construct_s3_path, lines 66-70
construct_s3_path(t, forecast_hour) ==
    "noaa-hrrr-bdp-pds/hrrr." \o date_str(t) \o "/conus/hrrr.t" \o hour_str(t)
        \o "z.wrfsfcf" \o Fmt02d(forecast_hour) \o ".grib2"

\* the clock readings tried: around the turn of a day, a month, a leap day, a year
Dates == { [year |-> 2024, month |-> 3, day |-> 1],
           [year |-> 2023, month |-> 3, day |-> 1],
           [year |-> 2025, month |-> 1, day |-> 1],
           [year |-> 2025, month |-> 5, day |-> 1],
           [year |-> 2025, month |-> 6, day |-> 15] }

Clock ==
    { [year |-> d.year, month |-> d.month, day |-> d.day, hour |-> h,
       minute |-> m, second |-> sec, microsecond |-> us] :
         d \in Dates, h \in {0, Latency - 1, Latency, 23}, m \in {0, 59},
         sec \in {0, 59}, us \in {0, 999999} }

\* the clock reading of the runs whose clock does not matter
SampleNow == [year |-> 2025, month |-> 6, day |-> 15, hour |-> 12, minute |-> 34,
              second |-> 56, microsecond |-> 789]

\* ------------------------------------------------------------------- state
\* A pool worker right after its start: default SIGALRM action, no alarm, no figure
FreshWorker ==
    [pc |-> "idle", hour |-> -1, alarm |-> 0, handler |-> SIG_DFL,
     old_handler |-> SIG_DFL, figs |-> 0]

\* The locals of process_full_run, the pool and the records of the run, before
\* anything has happened
Fresh(hours, workers) ==
    /\ max_forecast_hours \in hours
    /\ num_workers \in workers
    /\ taskq = << >>
    /\ outq = << >>
    /\ generated_files = << >>
    /\ failed_hours = << >>
    /\ completed = 0
    /\ progress = << >>
    /\ critical = FALSE
    /\ summary = [n |-> -1, failed |-> << >>]
    /\ returned = << >>
    /\ wk = [w \in Workers |-> FreshWorker]
    /\ log = [h \in Hours |-> ""]
    /\ fault = [h \in Hours |-> "none"]
    /\ expired = [h \in Hours |-> [f |-> 0, r |-> 0]]
    /\ decoded = [h \in Hours |-> 0]
    /\ files = [h \in Hours |-> 0]
    /\ dispatched = [h \in Hours |-> 0]
    /\ produced = [h \in Hours |-> 0]
    /\ arrival = << >>
    /\ crashed = {}

\* process_full_run has been called with num_workers given and is about to
\* build its pool (line 216)
Called(hours, workers) ==
    /\ cpu_count = 1
    /\ now = SampleNow
    /\ model_time = get_latest_model_run(now)
    /\ resolved = << >>
    /\ mpc = "start"
    /\ Fresh(hours, workers)

Init == Called(0 .. MaxHours, 0 .. MaxWorkers)

\* ------------------------------------------------------ the timeout manager
\* timeout(seconds), lines 37-38: old_handler = signal.signal(SIGALRM, timeout_handler);
\* signal.alarm(seconds).  No alarm is pending between the two calls.
timeout_enter(ws, seconds) ==
    [ws EXCEPT !.old_handler = ws.handler, !.handler = "timeout_handler",
               !.alarm = seconds]

\* timeout(seconds), lines 42-44: finally: signal.alarm(0); signal.signal(SIGALRM, old_handler)
timeout_exit(ws) ==
    [ws EXCEPT !.alarm = 0, !.handler = ws.old_handler, !.old_handler = SIG_DFL]

\* timeout_handler, lines 33-34: raise TimeoutException; it replaces whatever
\* return or exception was in flight in the interrupted code.
timeout_handler(pending) == "Timeout"

\* signal.alarm is one-shot: the kernel disarms the timer when it expires.
Fired(ws) == [ws EXCEPT !.alarm = 0]

\* A TimeoutException that leaves timeout() before the try or in the finally
\* before its two calls: the generator frame, with old_handler, is dropped and
\* the handler stays installed.
timeout_abandon(ws) == [ws EXCEPT !.old_handler = SIG_DFL]

\* (variant: the signal reaches any process of the pool)
Receives_any(w, v) == TRUE

\* signal.alarm arms a timer of the calling process: the SIGALRM of worker w's
\* timer is delivered to process v only if v is w.
Receives(w, v) == v = w

\* ------------------------------------------------------------- the workers
\* a stage's with-body is running (between the yield and the finally of timeout)
InTry == {"f_armed", "f_opened", "f_decoded", "r_armed", "r_fig", "r_saved"}
\* signal.alarm(seconds) has returned and the try of timeout() may not be entered yet
BeforeTry == {"f_armed", "r_armed"}
InFetch == {"f_armed", "f_opened", "f_decoded"}
InRender == {"r_armed", "r_fig", "r_saved"}
OutsideStage == {"idle", "f_start", "r_start"}

mainLocal == << envVars, max_forecast_hours, num_workers, mpc, taskq, generated_files,
                failed_hours, completed, progress, critical, summary, returned, arrival >>

\* (variant: the worker process ends with its task and is not replaced)
Idle_exit(ws) == [ws EXCEPT !.pc = "terminated", !.hour = -1]

\* The pool worker waits for its next task; handler and figures stay as they are.
Idle(ws) == [ws EXCEPT !.pc = "idle", !.hour = -1]

\* A step inside a task that returns nothing yet
Goto(wks, w, ws) ==
    /\ wk' = [wks EXCEPT ![w] = ws]
    /\ UNCHANGED << outq, produced, log >>

\* process_single_hour returns (forecast_hour, filepath, success), lines 175-183;
\* the pool worker puts the tuple on the result queue.
Emit(wks, w, ws, tag, filepath, success) ==
    /\ wk' = [wks EXCEPT ![w] = Idle(ws)]
    /\ outq' = Append(outq, [hour |-> ws.hour, filepath |-> filepath,
                             success |-> success, raised |-> FALSE])
    /\ produced' = [produced EXCEPT ![ws.hour] = @ + 1]
    /\ log' = [log EXCEPT ![ws.hour] = tag]

\* (variant: no handler in process_single_hour; the pool worker sends the
\* exception as the task's result and next(results) re-raises it)
process_single_hour_reraise(wks, w, ws) ==
    /\ wk' = [wks EXCEPT ![w] = Idle(ws)]
    /\ outq' = Append(outq, [hour |-> ws.hour, filepath |-> None,
                             success |-> FALSE, raised |-> TRUE])
    /\ produced' = [produced EXCEPT ![ws.hour] = @ + 1]
    /\ log' = [log EXCEPT ![ws.hour] = "Unexpected"]

\* process_single_hour, lines 181-183: except Exception -> (forecast_hour, None, False)
process_single_hour_except(wks, w, ws) == Emit(wks, w, ws, "Unexpected", None, FALSE)

\* (variant: except Exception listed before except TimeoutException)
download_and_process_grib_tag_timeout_last(pending) ==
    IF pending = "NotFound" THEN "NotFound" ELSE "Error"

\* (variant: except Exception listed before except FileNotFoundError)
download_and_process_grib_tag_notfound_last(pending) ==
    IF pending = "Timeout" THEN "Timeout" ELSE "Error"

\* download_and_process_grib, lines 101-110: the except clauses print
\* "Timeout" / "File not found" / "Error"
download_and_process_grib_tag(pending) ==
    IF pending = "Timeout" THEN "Timeout"
    ELSE IF pending = "NotFound" THEN "NotFound"
    ELSE "Error"

\* (variant: process_single_hour calls create_temperature_map whatever the
\* fetch stage returned)
download_and_process_grib_return_unchecked(wks, w, ws, pending) ==
    Goto(wks, w, [ws EXCEPT !.pc = "r_start"])

\* download_and_process_grib, lines 99-110, and process_single_hour, lines 169-179:
\* the stage returns its data or (None, None, None, None); only a stage that
\* returned data leads to the render stage, any other return is the failed
\* outcome of the task.
download_and_process_grib_return(wks, w, ws, pending) ==
    IF pending = "ret"
    THEN Goto(wks, w, [ws EXCEPT !.pc = "r_start"])
    ELSE Emit(wks, w, ws, download_and_process_grib_tag(pending), None, FALSE)

\* (variant: the except clauses do not call plt.close('all'))
create_temperature_map_return_leak(wks, w, ws, pending) ==
    IF pending = "ret"
    THEN Emit(wks, w, ws, "Saved", Filepath(ws.hour), TRUE)
    ELSE Emit(wks, w, ws,
              IF pending = "Timeout" THEN "PlotTimeout" ELSE "PlotError",
              None, FALSE)

\* create_temperature_map, lines 153-162, and process_single_hour, lines 174-177:
\* the path is returned, or plt.close('all') releases every figure and None is
\* returned.
create_temperature_map_return(wks, w, ws, pending) ==
    IF pending = "ret"
    THEN Emit(wks, w, ws, "Saved", Filepath(ws.hour), TRUE)
    ELSE Emit(wks, w, [ws EXCEPT !.figs = 0],
              IF pending = "Timeout" THEN "PlotTimeout" ELSE "PlotError",
              None, FALSE)

\* The with block of a stage has been left; the stage returns.
StageReturn(wks, w, ws, pending) ==
    IF ws.pc \in InFetch
    THEN download_and_process_grib_return(wks, w, ws, pending)
    ELSE create_temperature_map_return(wks, w, ws, pending)

\* One more SIGALRM handled in the stage that process v is running
Expire(v) ==
    expired' = [expired EXCEPT ![wk[v].hour] =
                   IF wk[v].pc \in InFetch THEN [@ EXCEPT !.f = @ + 1]
                                            ELSE [@ EXCEPT !.r = @ + 1]]

\* The with-body of a stage ends with a return or an exception (pending), lines
\* 42-44.  Either the finally disarms the alarm and restores the handler, or
\* the timer expires in the finally before signal.alarm(0) has taken effect:
\* then the TimeoutException replaces what was pending and the rest of the
\* finally is skipped.
StageExit(w, ws, pending) ==
    \/ /\ StageReturn(wk, w, timeout_exit(ws), pending)
       /\ UNCHANGED expired
    \/ /\ ws.alarm /= 0
       /\ StageReturn(wk, w, timeout_abandon(Fired(ws)), timeout_handler(pending))
       /\ Expire(w)

\* (variant: a taken task stays queued and is handed out again)
TaskQueueAfterGet_keep(q) == q

\* The pool's task queue once a worker has taken its head
TaskQueueAfterGet(q) == Tail(q)

\* A worker takes the next task of the pool's task queue: process_func(hour),
\* lines 210 and 219.
TakeTask(w) ==
    /\ mpc = "collect"
    /\ wk[w].pc = "idle"
    /\ taskq /= << >>
    /\ wk' = [wk EXCEPT ![w] = [@ EXCEPT !.pc = "f_start", !.hour = Head(taskq)]]
    /\ taskq' = TaskQueueAfterGet(taskq)
    /\ dispatched' = [dispatched EXCEPT ![Head(taskq)] = @ + 1]
    /\ UNCHANGED << envVars, max_forecast_hours, num_workers, mpc, outq, generated_files,
                    failed_hours, completed, progress, critical, summary, returned, log,
                    fault, expired, decoded, files, produced, arrival, crashed >>

workerFrame == << mainLocal, dispatched, crashed >>

\* A collaborator raises in the task worker w is running
Raise(w, kind) == fault' = [fault EXCEPT ![wk[w].hour] = kind]

\* Line 74, outside the stage's try: the print raises (stdout is gone); the
\* exception reaches process_single_hour's handler.
FetchPrintFails(w) ==
    /\ wk[w].pc = "f_start"
    /\ Raise(w, "Print")
    /\ process_single_hour_except(wk, w, wk[w])
    /\ UNCHANGED << workerFrame, expired, decoded, files >>

\* Line 77: with timeout(60)
FetchEnter(w) ==
    /\ wk[w].pc = "f_start"
    /\ Goto(wk, w, [timeout_enter(wk[w], FetchTimeout) EXCEPT !.pc = "f_armed"])
    /\ UNCHANGED << workerFrame, fault, expired, decoded, files >>

\* Line 79: self.s3.open(s3_path, 'rb') returns the stream
FetchOpen(w) ==
    /\ wk[w].pc = "f_armed"
    /\ Goto(wk, w, [wk[w] EXCEPT !.pc = "f_opened"])
    /\ UNCHANGED << workerFrame, fault, expired, decoded, files >>

\* Line 79: the key does not exist, s3.open raises FileNotFoundError
FetchNotFound(w) ==
    /\ wk[w].pc = "f_armed"
    /\ Raise(w, "NotFound")
    /\ StageExit(w, wk[w], "NotFound")
    /\ UNCHANGED << workerFrame, decoded, files >>

\* Line 79: s3.open raises anything else (no connection, access denied)
FetchOpenError(w) ==
    /\ wk[w].pc = "f_armed"
    /\ Raise(w, "Error")
    /\ StageExit(w, wk[w], "Error")
    /\ UNCHANGED << workerFrame, decoded, files >>

\* Lines 82-88: xr.open_dataset decodes the stream
FetchDecode(w) ==
    /\ wk[w].pc = "f_opened"
    /\ decoded' = [decoded EXCEPT ![wk[w].hour] = @ + 1]
    /\ Goto(wk, w, [wk[w] EXCEPT !.pc = "f_decoded"])
    /\ UNCHANGED << workerFrame, fault, expired, files >>

\* Lines 82-88: xr.open_dataset raises (malformed grid)
FetchDecodeError(w) ==
    /\ wk[w].pc = "f_opened"
    /\ decoded' = [decoded EXCEPT ![wk[w].hour] = @ + 1]
    /\ Raise(w, "Error")
    /\ StageExit(w, wk[w], "Error")
    /\ UNCHANGED << workerFrame, files >>

\* Lines 91-99: the field and the coordinates are extracted and returned
FetchExtract(w) ==
    /\ wk[w].pc = "f_decoded"
    /\ StageExit(w, wk[w], "ret")
    /\ UNCHANGED << workerFrame, fault, decoded, files >>

\* Lines 91-96: neither 't2m' nor 't', or no coordinates: KeyError
FetchExtractError(w) ==
    /\ wk[w].pc = "f_decoded"
    /\ Raise(w, "Error")
    /\ StageExit(w, wk[w], "Error")
    /\ UNCHANGED << workerFrame, decoded, files >>

\* Line 115: with timeout(30)
RenderEnter(w) ==
    /\ wk[w].pc = "r_start"
    /\ Goto(wk, w, [timeout_enter(wk[w], PlotTimeout) EXCEPT !.pc = "r_armed"])
    /\ UNCHANGED << workerFrame, fault, expired, decoded, files >>

\* Line 118: fig = plt.figure(...)
RenderFigure(w) ==
    /\ wk[w].pc = "r_armed"
    /\ Goto(wk, w, [wk[w] EXCEPT !.pc = "r_fig", !.figs = @ + 1])
    /\ UNCHANGED << workerFrame, fault, expired, decoded, files >>

\* Lines 116-149: a drawing or encoding call raises
RenderError(w) ==
    /\ wk[w].pc \in {"r_armed", "r_fig"}
    /\ Raise(w, "RenderError")
    /\ StageExit(w, wk[w], "Error")
    /\ UNCHANGED << workerFrame, decoded, files >>

\* Line 149: plt.savefig(filepath, ...) writes the image
RenderSave(w) ==
    /\ wk[w].pc = "r_fig"
    /\ files' = [files EXCEPT ![wk[w].hour] = @ + 1]
    /\ Goto(wk, w, [wk[w] EXCEPT !.pc = "r_saved"])
    /\ UNCHANGED << workerFrame, fault, expired, decoded >>

\* Lines 150-153: plt.close(fig); return filepath
RenderClose(w) ==
    /\ wk[w].pc = "r_saved"
    /\ StageExit(w, [wk[w] EXCEPT !.figs = @ - 1], "ret")
    /\ UNCHANGED << workerFrame, fault, decoded, files >>

\* The timer of worker w expires while a with-body runs, between the yield and
\* the finally of timeout(): the TimeoutException unwinds the body, the finally
\* restores the handler and the stage's except clause returns.
AlarmInBody(w) ==
    /\ wk[w].alarm /= 0
    /\ \E v \in Workers :
          /\ Receives(w, v)
          /\ wk[v].pc \in InTry
          /\ LET wks == [wk EXCEPT ![w] = Fired(@)] IN
             StageReturn(wks, v, timeout_exit(wks[v]), timeout_handler("none"))
          /\ Expire(v)
    /\ UNCHANGED << workerFrame, fault, decoded, files >>

\* The timer expires after signal.alarm(seconds) and before the try of
\* timeout() is entered: the TimeoutException leaves the with statement
\* without any finally, and the stage's except clause returns.
AlarmBeforeTry(w) ==
    /\ wk[w].alarm /= 0
    /\ \E v \in Workers :
          /\ Receives(w, v)
          /\ wk[v].pc \in BeforeTry
          /\ LET wks == [wk EXCEPT ![w] = Fired(@)] IN
             StageReturn(wks, v, timeout_abandon(wks[v]), timeout_handler("none"))
          /\ Expire(v)
    /\ UNCHANGED << workerFrame, fault, decoded, files >>

\* The worker process dies while it runs a task (killed, out of memory, a fault
\* in native code).  The pool starts a fresh process in its place; the task it
\* was running is not resubmitted and its result never arrives.
WorkerCrash(w) ==
    /\ wk[w].pc \notin {"idle", "terminated"}
    /\ crashed' = crashed \cup {wk[w].hour}
    /\ wk' = [wk EXCEPT ![w] = FreshWorker]
    /\ UNCHANGED << mainLocal, outq, log, fault, expired, decoded, files,
                    dispatched, produced >>

WorkerStep(w) ==
    \/ TakeTask(w)
    \/ FetchPrintFails(w)
    \/ FetchEnter(w)
    \/ FetchOpen(w)
    \/ FetchNotFound(w)
    \/ FetchOpenError(w)
    \/ FetchDecode(w)
    \/ FetchDecodeError(w)
    \/ FetchExtract(w)
    \/ FetchExtractError(w)
    \/ RenderEnter(w)
    \/ RenderFigure(w)
    \/ RenderError(w)
    \/ RenderSave(w)
    \/ RenderClose(w)
    \/ AlarmInBody(w)
    \/ AlarmBeforeTry(w)

\* ------------------------------------------------------- the main process
\* Pool.__exit__ -> terminate(): the worker processes are killed, the queues dropped
Terminated == [w \in Workers |-> [FreshWorker EXCEPT !.pc = "terminated"]]

histVars == << log, fault, expired, decoded, files, dispatched, produced, crashed >>

Min(a, b) == IF a < b THEN a ELSE b

\* (variant: no cap on the default)
DefaultWorkers_uncapped(cpus) == cpus

\* Line 197: min(cpu_count(), 8)
DefaultWorkers(cpus) == Min(cpus, WorkerCap)

\* Lines 193-214, the prologue of process_full_run: the model run is located;
\* a num_workers that is not given becomes the default; wk gets one slot for
\* each process the pool is going to start.
process_full_run_enter ==
    /\ mpc = "enter"
    /\ mpc' = "start"
    /\ model_time' = get_latest_model_run(now)
    /\ num_workers' = IF num_workers = NotGiven THEN DefaultWorkers(cpu_count)
                                                ELSE num_workers
    /\ wk' = [w \in 1 .. num_workers' |-> FreshWorker]
    /\ UNCHANGED << cpu_count, now, resolved, max_forecast_hours, taskq, outq,
                    generated_files, failed_hours, completed, progress, critical,
                    summary, returned, arrival, histVars >>

\* Lines 216-219: Pool(processes=num_workers); pool.imap_unordered(process_func, forecast_hours)
PoolCreate ==
    /\ mpc = "start"
    /\ num_workers >= 1
    /\ mpc' = "collect"
    /\ taskq' = forecast_hours
    /\ UNCHANGED << envVars, max_forecast_hours, num_workers, outq, generated_files,
                    failed_hours, completed, progress, critical, summary, returned, wk,
                    arrival, histVars >>

\* Lines 244-252: the summary is printed and generated_files returned
Summarise(gf, fh) ==
    /\ mpc' = "done"
    /\ summary' = [n |-> Len(gf), failed |-> Sorted(fh)]
    /\ returned' = gf

\* (variant: the except clause starts the lists afresh)
KeptAfterFault_reset(s) == << >>

\* What the except clause leaves of the lists collected so far
KeptAfterFault(s) == s

\* Lines 240-252: except Exception: print("Critical error ..."); traceback.print_exc();
\* then the summary.  Leaving the with block has terminated the pool.
process_full_run_except ==
    /\ critical' = TRUE
    /\ taskq' = << >>
    /\ outq' = << >>
    /\ generated_files' = KeptAfterFault(generated_files)
    /\ failed_hours' = KeptAfterFault(failed_hours)
    /\ Summarise(generated_files', failed_hours')

\* Line 217: Pool() raises (ValueError for processes < 1, or no process can be started)
PoolCreateFault ==
    /\ mpc = "start"
    /\ process_full_run_except
    /\ UNCHANGED << envVars, max_forecast_hours, num_workers, completed, progress, wk, arrival,
                    histVars >>

\* (variant: the count is tested before it is incremented)
ProgressDue_before(k) == (k - 1) % ProgressEvery = 0

\* Line 233: completed % 5 == 0
ProgressDue(k) == k % ProgressEvery = 0

\* Lines 223-234: one iteration of "for result in results".  A task that raised
\* would have its exception re-raised by next(results).
Collect ==
    /\ mpc = "collect"
    /\ outq /= << >>
    /\ LET result == Head(outq) IN
       /\ arrival' = Append(arrival, result.hour)
       /\ IF result.raised
          THEN /\ process_full_run_except
               /\ wk' = Terminated
               /\ UNCHANGED << completed, progress >>
          ELSE /\ outq' = Tail(outq)
               /\ completed' = completed + 1
               /\ progress' = IF ProgressDue(completed') THEN Append(progress, completed')
                                                         ELSE progress
               /\ IF result.success /\ result.filepath /= None
                  THEN /\ generated_files' =
                              Append(generated_files, << result.hour, result.filepath >>)
                       /\ UNCHANGED failed_hours
                  ELSE /\ failed_hours' = Append(failed_hours, result.hour)
                       /\ UNCHANGED generated_files
               /\ UNCHANGED << mpc, taskq, critical, wk, summary, returned >>
    /\ UNCHANGED << envVars, max_forecast_hours, num_workers, histVars >>

\* Line 223: next(results) raises although results are outstanding (the pool
\* machinery faults); the with block is left, which terminates the pool.
IterFault ==
    /\ mpc = "collect"
    /\ completed < Len(forecast_hours)
    /\ process_full_run_except
    /\ wk' = Terminated
    /\ UNCHANGED << envVars, max_forecast_hours, num_workers, completed, progress, arrival, histVars >>

\* (variant: the sort is left out)
SortAndStrip_unsorted(gf) == PathsOf(gf)

\* Lines 237-238: generated_files.sort(key=lambda x: x[0]); generated_files = [f[1] ...]
SortAndStrip(gf) == PathsOf(SortByHour(gf))

\* Lines 223, 235-252: the result stream is exhausted, the pool is terminated,
\* the successes are sorted and reduced to their paths, the summary is printed.
FinishCollect ==
    /\ mpc = "collect"
    /\ completed = Len(forecast_hours)
    /\ wk' = Terminated
    /\ generated_files' = SortAndStrip(generated_files)
    /\ Summarise(generated_files', failed_hours)
    /\ UNCHANGED << envVars, max_forecast_hours, num_workers, taskq, outq, failed_hours,
                    completed, progress, critical, arrival, histVars >>

\* The steps of process_full_run that happen whenever they can
MainProgress ==
    \/ PoolCreate
    \/ Collect
    \/ FinishCollect

Next ==
    \/ MainProgress
    \/ PoolCreateFault
    \/ IterFault
    \/ \E w \in Workers : TakeTask(w)
    \/ \E w \in Workers : FetchPrintFails(w)
    \/ \E w \in Workers : FetchEnter(w)
    \/ \E w \in Workers : FetchOpen(w)
    \/ \E w \in Workers : FetchNotFound(w)
    \/ \E w \in Workers : FetchOpenError(w)
    \/ \E w \in Workers : FetchDecode(w)
    \/ \E w \in Workers : FetchDecodeError(w)
    \/ \E w \in Workers : FetchExtract(w)
    \/ \E w \in Workers : FetchExtractError(w)
    \/ \E w \in Workers : RenderEnter(w)
    \/ \E w \in Workers : RenderFigure(w)
    \/ \E w \in Workers : RenderError(w)
    \/ \E w \in Workers : RenderSave(w)
    \/ \E w \in Workers : RenderClose(w)
    \/ \E w \in Workers : AlarmInBody(w)
    \/ \E w \in Workers : AlarmBeforeTry(w)
    \/ \E w \in Workers : WorkerCrash(w)

Spec == Init /\ [][Next]_vars

\* Scheduling: the main process runs; every live worker process runs, and a call
\* that never returns is cut by the kernel's alarm.  Faults and crashes may or
\* may not happen.  Pool(processes=0) always raises.
FairSpec ==
    /\ Spec
    /\ WF_vars(MainProgress)
    /\ WF_vars(num_workers < 1 /\ PoolCreateFault)
    /\ \A w \in 1 .. MaxWorkers : WF_vars(w \in Workers /\ WorkerStep(w))

\* process_full_run is called, with num_workers given as 1 or not given, on
\* hosts of 1 .. MaxCpus processors.  The pools of more than MaxWorkers
\* processes are explored with a single task.
DefaultInit ==
    /\ cpu_count \in 1 .. MaxCpus
    /\ now = SampleNow
    /\ model_time = NoTime
    /\ resolved = << >>
    /\ mpc = "enter"
    /\ Fresh(0 .. MaxHours, {NotGiven, 1})
    /\ (num_workers = NotGiven /\ cpu_count > MaxWorkers) => max_forecast_hours = 0

DefaultNext ==
    \/ process_full_run_enter
    \/ Next

DefaultSpec == DefaultInit /\ [][DefaultNext]_vars

\* process_single_hour as one step, lines 164-183: the task of worker w ends
\* with its image written and (hour, filepath, True), or with a failure and
\* (hour, None, False).
process_single_hour(w) ==
    /\ wk[w].pc = "f_start"
    /\ \/ /\ decoded' = [decoded EXCEPT ![wk[w].hour] = @ + 1]
          /\ files' = [files EXCEPT ![wk[w].hour] = @ + 1]
          /\ Emit(wk, w, wk[w], "Saved", Filepath(wk[w].hour), TRUE)
          /\ UNCHANGED fault
       \/ /\ Raise(w, "Error")
          /\ Emit(wk, w, wk[w], "Error", None, FALSE)
          /\ UNCHANGED << decoded, files >>
    /\ UNCHANGED << workerFrame, expired >>

\* Runs with each task a single step: up to MaxLoopHours + 1 tasks on one
\* worker, and ProgressEvery tasks on MaxWorkers workers
LoopInit ==
    \/ Called(0 .. MaxLoopHours, {1})
    \/ Called({ProgressEvery - 1}, {MaxWorkers})

LoopNext ==
    \/ MainProgress
    \/ IterFault
    \/ \E w \in Workers : TakeTask(w)
    \/ \E w \in Workers : process_single_hour(w)

LoopSpec == LoopInit /\ [][LoopNext]_vars

\* Line 167, taken alone: construct_s3_path(model_time, forecast_hour) is called
\* for some forecast hour
ConstructS3Path ==
    /\ mpc /= "enter"
    /\ Len(resolved) < 2
    /\ \E h \in 0 .. MaxKeyHour :
          resolved' = Append(resolved, [model_time |-> model_time, forecast_hour |-> h,
                                        s3_path |-> construct_s3_path(model_time, h)])
    /\ UNCHANGED << cpu_count, now, model_time, max_forecast_hours, num_workers,
                    mpc, taskq, outq, generated_files, failed_hours, completed,
                    progress, critical, summary, returned, wk, arrival, histVars >>

\* process_full_run is called at any of the clock readings of Clock; the model
\* run is located and keys are resolved from it
LocatorInit ==
    /\ cpu_count = 1
    /\ now \in Clock
    /\ model_time = NoTime
    /\ resolved = << >>
    /\ mpc = "enter"
    /\ Fresh({0}, {1})

LocatorNext ==
    \/ process_full_run_enter
    \/ ConstructS3Path

LocatorSpec == LocatorInit /\ [][LocatorNext]_vars

\* ================================================================ properties
Done == mpc = "done"
NoPoolFault == Done /\ ~critical

Count(seq, x) == Cardinality({i \in 1 .. Len(seq) : seq[i] = x})

\* The hours of the successes collected so far (pairs until they are stripped)
SuccessHours ==
    IF NoPoolFault
    THEN {h \in Hours : \E i \in 1 .. Len(generated_files) : generated_files[i] = Filepath(h)}
    ELSE {generated_files[i][1] : i \in 1 .. Len(generated_files)}

FailedHours == SeqSet(failed_hours)

\* Something went wrong inside the task of hour h itself
OwnFailure(h) == fault[h] /= "none" \/ expired[h].f > 0 \/ expired[h].r > 0

\* The paths of the hours of S, in ascending order of the hour
PathsAscending(S) ==
    LET hs == SelectSeq(forecast_hours, LAMBDA h : h \in S)
    IN  [i \in 1 .. Len(hs) |-> Filepath(hs[i])]

HourOf(path) == CHOOSE h \in Hours : Filepath(h) = path

\* ---------------------------------------------------------------------- C1
\* C1: when a run whose pool did not fault returns, every lead hour of
\* 0..max_forecast_hours is exactly once in the successes and failed_hours
\* together, none in both, and there are at most max_forecast_hours + 1 successes.
C1_Partition ==
    NoPoolFault =>
        /\ \A h \in Hours : Count(returned, Filepath(h)) + Count(failed_hours, h) = 1
        /\ Len(returned) + Len(failed_hours) = max_forecast_hours + 1
        /\ \A i \in 1 .. Len(failed_hours) : failed_hours[i] \in Hours
        /\ Len(returned) <= max_forecast_hours + 1

C1_Witness ==
    /\ NoPoolFault
    /\ max_forecast_hours = 1
    /\ num_workers = 2
    /\ Len(returned) = 1
    /\ Len(failed_hours) = 1

C3_AlwaysReturns == <>Done

\* ---------------------------------------------------------------------- C4
\* C4: a task whose fetch+decode stage was still in flight when its alarm
\* expired ends as Timeout with no artifact: it is never logged as a decode
\* error, never a success, wherever in the stage the alarm fired.
C4_TimeoutWins ==
    \A h \in Hours :
        expired[h].f > 0 =>
            /\ log[h] \in {"", "Timeout"}
            /\ produced[h] > 0 => log[h] = "Timeout"
            /\ files[h] = 0
            /\ h \notin SuccessHours
            /\ \A i \in 1 .. Len(outq) :
                  outq[i].hour = h => ~outq[i].success /\ outq[i].filepath = None
            /\ NoPoolFault => h \in FailedHours

\* the alarm fired after the decoder had returned its dataset
C4_Witness ==
    \E h \in Hours :
        /\ expired[h].f > 0
        /\ decoded[h] = 1
        /\ fault[h] = "none"
        /\ log[h] = "Timeout"
        /\ NoPoolFault
        /\ h \in FailedHours

C6_PartialKept ==
    (Done /\ critical) =>
        /\ completed = Len(arrival)
        /\ Len(returned) + Len(failed_hours) = completed
        /\ {returned[i][1] : i \in 1 .. Len(returned)}
              = {h \in SeqSet(arrival) : log[h] = "Saved"}
        /\ \A i \in 1 .. Len(returned) : returned[i][2] = Filepath(returned[i][1])
        /\ FailedHours = {h \in SeqSet(arrival) : log[h] /= "Saved"}
        /\ summary.n = Len(returned)
        /\ summary.failed = Sorted(failed_hours)

C6_Witness ==
    /\ Done
    /\ critical
    /\ completed = MaxHours
    /\ Len(returned) >= 1
    /\ summary.n = Len(returned)

\* ---------------------------------------------------------------------- C7
\* C7: once all tasks have resolved, the returned artifact list is in strictly
\* ascending lead hour order, whatever the order of completion.
C7_Ascending ==
    NoPoolFault =>
        /\ \A i \in 1 .. Len(returned) : \E h \in Hours : returned[i] = Filepath(h)
        /\ \A i, j \in 1 .. Len(returned) :
              i < j => HourOf(returned[i]) < HourOf(returned[j])

\* the results arrived in descending order
C7_Witness ==
    /\ NoPoolFault
    /\ Len(returned) = MaxHours + 1
    /\ \A i \in 1 .. Len(arrival) : arrival[i] = MaxHours + 1 - i

\* ---------------------------------------------------------------------- C8
\* C8 as stated: in one invocation every lead hour is dispatched exactly once,
\* yields exactly one outcome and the loop consumes it exactly once.
C8_ExactlyOnceAsStated ==
    Done => \A h \in Hours :
                /\ dispatched[h] = 1
                /\ produced[h] = 1
                /\ Count(arrival, h) = 1

\* C8 amended: in every invocation each lead hour is dispatched at most once,
\* yields at most one outcome, consumed at most once, and a task that failed
\* is never dispatched again; in an invocation that returns without a pool
\* fault each of the three happens exactly once.
C8_ExactlyOnce ==
    /\ \A h \in Hours :
          /\ Count(arrival, h) <= produced[h]
          /\ produced[h] <= dispatched[h]
          /\ dispatched[h] <= 1
          /\ Count(taskq, h) + dispatched[h] <= 1
    /\ NoPoolFault =>
          \A h \in Hours :
              dispatched[h] = 1 /\ produced[h] = 1 /\ Count(arrival, h) = 1

C8_Witness ==
    /\ NoPoolFault
    /\ max_forecast_hours = MaxHours
    /\ \E h \in Hours : log[h] = "Timeout" /\ dispatched[h] = 1
    /\ \E h \in Hours : log[h] = "PlotError" /\ dispatched[h] = 1

\* ---------------------------------------------------------------------- C9
\* C9: a stage's alarm is armed with the stage's own full bound while the stage
\* runs; outside a stage no alarm is pending and the process has its previous
\* signal handler back.
C9_StageBounds ==
    \A w \in Workers :
        /\ wk[w].pc \in InFetch => wk[w].alarm = FetchTimeout
        /\ wk[w].pc \in InRender => wk[w].alarm = PlotTimeout
        /\ wk[w].pc \in OutsideStage \cup {"terminated"} => wk[w].alarm = 0
        /\ wk[w].pc \in OutsideStage \cup {"terminated"} => wk[w].handler = SIG_DFL

\* --------------------------------------------------------------------- C10
\* C10: the expiry of a stage's bound interrupts the stage of the worker that
\* armed it, at most once per stage, and changes nothing of any other worker
\* or of any other hour's task.
C10_OwnWorkerOnly ==
    /\ [](\A h \in Hours : expired[h].f <= 1 /\ expired[h].r <= 1)
    /\ [][\A h \in Hours :
            expired'[h] /= expired[h] =>
                \E v \in Workers :
                    /\ wk[v].hour = h
                    /\ wk[v].alarm /= 0
                    /\ wk'[v].alarm = 0
                    /\ \A u \in Workers \ {v} : wk'[u] = wk[u]
                    /\ \A g \in Hours \ {h} :
                          /\ expired'[g] = expired[g]
                          /\ log'[g] = log[g]
                          /\ produced'[g] = produced[g]]_vars

\* one worker's stage has been interrupted and its task has failed while
\* another worker's stage, with its own alarm still armed, goes on
C10_Witness ==
    \E v, u \in Workers :
        /\ v /= u
        /\ wk[v].pc = "idle"
        /\ \E h \in Hours : expired[h].f = 1 /\ log[h] = "Timeout" /\ dispatched[h] = 1
        /\ wk[u].pc \in InTry
        /\ wk[u].alarm /= 0
        /\ expired[wk[u].hour] = [f |-> 0, r |-> 0]

\* --------------------------------------------------------------------- C11
\* C11: when a stage's bound expires, in that very step the worker puts the
\* failed outcome of its task (Timeout or PlotTimeout, no artifact) on the
\* result queue and waits for its next task; and from then on, unless a worker
\* process dies or the pool faults, every task of the run is executed and
\* resolved and the run returns.
C11_WorkerProceeds ==
    /\ [][\A h \in Hours :
            expired'[h] /= expired[h] =>
                \E v \in Workers :
                    /\ wk[v].hour = h
                    /\ wk'[v].pc = "idle"
                    /\ wk'[v].alarm = 0
                    /\ produced'[h] = produced[h] + 1
                    /\ log'[h] \in {"Timeout", "PlotTimeout"}
                    /\ outq' = Append(outq, [hour |-> h, filepath |-> None,
                                             success |-> FALSE, raised |-> FALSE])]_vars
    /\ \A h \in 0 .. MaxHours :
          (h \in Hours /\ (expired[h].f > 0 \/ expired[h].r > 0))
             ~> \/ critical
                \/ crashed /= {}
                \/ Done /\ \A g \in Hours : dispatched[g] = 1 /\ Count(arrival, g) = 1

\* the only worker of the pool had its first task cut by the fetch bound and
\* then ran the second task to its image
C11_Witness ==
    /\ NoPoolFault
    /\ num_workers = 1
    /\ max_forecast_hours = MaxHours
    /\ expired[0].f = 1
    /\ log[0] = "Timeout"
    /\ log[MaxHours] = "Saved"
    /\ crashed = {}

\* --------------------------------------------------------------------- C12
\* the render stage of the task has been called for (process_single_hour line 172)
RenderCalled == {"r_start"} \cup InRender

\* the status lines of a failed fetch+decode stage
FetchFailed == {"Timeout", "NotFound", "Error", "Unexpected"}

\* C12: a task's outcome is a success exactly if it carries an artifact path,
\* and it is one exactly if the fetch+decode stage returned its data and the
\* render stage then returned the path; the render stage is called only after
\* a fetch+decode stage that returned data, and a task whose fetch+decode
\* failed is over without any call of the render stage.
C12_SuccessIffBoth ==
    /\ [](/\ \A i \in 1 .. Len(outq) :
               /\ outq[i].success <=> outq[i].filepath /= None
               /\ outq[i].success =>
                     /\ outq[i].filepath = Filepath(outq[i].hour)
                     /\ log[outq[i].hour] = "Saved"
                     /\ decoded[outq[i].hour] = 1
                     /\ files[outq[i].hour] = 1
                     /\ ~OwnFailure(outq[i].hour)
               /\ ~outq[i].success => log[outq[i].hour] /= "Saved"
          /\ \A w \in Workers :
               wk[w].pc \in RenderCalled =>
                     /\ decoded[wk[w].hour] = 1
                     /\ fault[wk[w].hour] = "none"
                     /\ expired[wk[w].hour].f = 0
                     /\ log[wk[w].hour] = ""
          /\ \A h \in Hours :
               log[h] \in FetchFailed =>
                     /\ files[h] = 0
                     /\ \A w \in Workers : wk[w].hour /= h)
    /\ [][\A w \in Workers :
            /\ (wk'[w].pc \in RenderCalled /\ wk[w].pc \notin RenderCalled) =>
                  /\ wk[w].pc = "f_decoded"
                  /\ wk'[w].pc = "r_start"
                  /\ fault' = fault
                  /\ expired' = expired
            /\ (wk[w].hour \in Hours /\ produced'[wk[w].hour] /= produced[wk[w].hour]) =>
                  (outq'[Len(outq')].success
                      <=> (wk[w].pc = "r_saved" /\ expired' = expired))]_vars

\* one task has ended with its image, another after a failed decode
C12_Witness ==
    \E i, j \in 1 .. Len(outq) :
        /\ outq[i].success
        /\ outq[i].filepath = Filepath(outq[i].hour)
        /\ ~outq[j].success
        /\ outq[j].filepath = None
        /\ fault[outq[j].hour] = "Error"
        /\ decoded[outq[j].hour] = 1
        /\ files[outq[j].hour] = 0

\* --------------------------------------------------------------------- C13
\* the workers whose task has its figure and writes, or has written, its image
Writers == {w \in Workers : wk[w].pc \in {"r_fig", "r_saved"}}

\* different forecast hours have different output files
Filepath_injective ==
    \A g, h \in 0 .. MaxLeadHour : Filepath(g) = Filepath(h) => g = h

\* C13: the output file name is an injective function of the forecast hour,
\* so at every moment the tasks that write or have written an image have
\* pairwise different files, and no file is written twice in a run.
C13_DistinctFiles ==
    /\ Filepath_injective
    /\ \A h \in Hours : files[h] <= 1
    /\ \A w, v \in Writers :
          Filepath(wk[w].hour) = Filepath(wk[v].hour) => w = v
    /\ \A g, h \in Hours :
          (files[g] > 0 /\ files[h] > 0 /\ Filepath(g) = Filepath(h)) => g = h

\* two workers have written the images of two different hours and neither
\* has left its render stage yet
C13_Witness ==
    \E w, v \in Writers :
        /\ w /= v
        /\ wk[w].pc = "r_saved"
        /\ wk[v].pc = "r_saved"
        /\ files[wk[w].hour] = 1
        /\ files[wk[v].hour] = 1

\* --------------------------------------------------------------------- C14
\* the tasks a worker has taken and that have neither returned nor died with it
Executing == {h \in Hours : dispatched[h] > produced[h] /\ h \notin crashed}

\* the workers that run a task
Busy == {w \in Workers : wk[w].pc \notin {"idle", "terminated"}}

C15_ProgressEveryFive ==
    /\ [](/\ completed = Len(arrival)
          /\ progress = [i \in 1 .. (completed \div ProgressEvery) |-> ProgressEvery * i])
    /\ [](NoPoolFault => Len(progress) = (max_forecast_hours + 1) \div ProgressEvery)
    /\ [][/\ progress' /= progress <=>
                (completed' = completed + 1 /\ completed' % ProgressEvery = 0)
          /\ progress' /= progress => progress' = Append(progress, completed')]_vars

\* ten tasks: the fifth outcome collected is a failure, the tenth a success
C15_Witness ==
    /\ NoPoolFault
    /\ Len(arrival) = 2 * ProgressEvery
    /\ progress = << ProgressEvery, 2 * ProgressEvery >>
    /\ log[arrival[ProgressEvery]] = "Error"
    /\ log[arrival[2 * ProgressEvery]] = "Saved"

\* --------------------------------------------------------------------- C16
\* for one model run, different forecast hours have different keys, and the
\* key follows the documented template
construct_s3_path_injective ==
    /\ \A g, h \in 0 .. MaxLeadHour :
          construct_s3_path(get_latest_model_run(SampleNow), g)
              = construct_s3_path(get_latest_model_run(SampleNow), h) => g = h
    /\ construct_s3_path(get_latest_model_run(SampleNow), 5)
          = "noaa-hrrr-bdp-pds/hrrr.20250615/conus/hrrr.t09z.wrfsfcf05.grib2"

\* C16: construct_s3_path depends on its two arguments only and changes
\* nothing: two calls for the same run and forecast hour return the same key,
\* two calls for the same run and different forecast hours return different
\* keys.
C16_KeyInjective ==
    /\ [](/\ construct_s3_path_injective
          /\ \A i, j \in 1 .. Len(resolved) :
               resolved[i].model_time = resolved[j].model_time =>
                   (resolved[i].s3_path = resolved[j].s3_path
                       <=> resolved[i].forecast_hour = resolved[j].forecast_hour))
    /\ [][resolved' /= resolved =>
             /\ model_time' = model_time
             /\ now' = now
             /\ mpc' = mpc
             /\ wk' = wk
             /\ Len(resolved') = Len(resolved) + 1
             /\ SubSeq(resolved', 1, Len(resolved)) = resolved]_vars

\* the keys of the forecast hours 9 and 10 of one model run have been resolved
C16_Witness ==
    /\ Len(resolved) = 2
    /\ resolved[1].forecast_hour = 9
    /\ resolved[2].forecast_hour = 10
    /\ resolved[1].model_time = resolved[2].model_time
    /\ resolved[1].s3_path /= resolved[2].s3_path

\* --------------------------------------------------------------------- C17
RECURSIVE DaysBeforeMonth(_, _)
DaysBeforeMonth(y, m) ==
    IF m = 1 THEN 0 ELSE DaysBeforeMonth(y, m - 1) + DaysInMonth(y, m - 1)

\* the number of the day of t since 0001-01-01, and of its hour
DayNumber(t) ==
    365 * (t.year - 1) + ((t.year - 1) \div 4) - ((t.year - 1) \div 100)
        + ((t.year - 1) \div 400) + DaysBeforeMonth(t.year, t.month) + t.day

HourNumber(t) == 24 * DayNumber(t) + t.hour

HourTruncated(t) == t.minute = 0 /\ t.second = 0 /\ t.microsecond = 0

\* C17 as stated: the model run is hour-truncated and is the current time
\* minus the latency.
C17_AsStated ==
    model_time /= NoTime =>
        /\ HourTruncated(model_time)
        /\ HourNumber(model_time) = HourNumber(now) - Latency
        /\ model_time.minute = now.minute
        /\ model_time.second = now.second
        /\ model_time.microsecond = now.microsecond

\* C17 amended: the model run is hour-truncated, a valid time, and is the
\* hour of the current time minus the latency, which is 3 hours.
C17_TruncatedHour ==
    model_time /= NoTime =>
        /\ HourTruncated(model_time)
        /\ HourNumber(model_time) = HourNumber(now) - Latency
        /\ model_time.month \in 1 .. 12
        /\ model_time.day \in 1 .. DaysInMonth(model_time.year, model_time.month)
        /\ model_time.hour \in 0 .. 23

\* one minute to 3 o'clock on the first of March of a leap year
C17_Witness ==
    /\ now.year = 2024 /\ now.month = 3 /\ now.day = 1
    /\ now.hour = 2 /\ now.minute = 59 /\ now.microsecond = 999999
    /\ model_time = [year |-> 2024, month |-> 2, day |-> 29, hour |-> 23,
                     minute |-> 0, second |-> 0, microsecond |-> 0]

\* --------------------------------------------------------------------- C18
\* C18: at the end of a run whose pool did not fault, the image of hour h has
\* been written by this run exactly if the outcome of h is a success; a task
\* reported as failed has written none.
C18_FileIffSuccess ==
    NoPoolFault =>
        \A h \in Hours :
            /\ files[h] > 0 <=> h \in SuccessHours
            /\ h \in FailedHours => files[h] = 0

\* What does hold: every success has its image, and a failed task has written
\* an image only if its render bound expired after savefig had returned.
C18_FileOfSuccess ==
    NoPoolFault =>
        \A h \in Hours :
            /\ h \in SuccessHours => files[h] = 1
            /\ (h \in FailedHours /\ files[h] > 0) =>
                  /\ log[h] = "PlotTimeout"
                  /\ expired[h].r = 1

\* --------------------------------------------------------------------- C19
\* C19: a worker holds a figure only inside the render stage, between
\* plt.figure and the return of create_temperature_map: whichever way the
\* stage is left, no figure of the task stays open, so a worker waits for and
\* starts its next task without any.
C19_FiguresReleased ==
    \A w \in Workers :
        /\ wk[w].pc \notin InRender => wk[w].figs = 0
        /\ wk[w].pc = "r_armed" => wk[w].figs = 0
        /\ wk[w].pc \in {"r_fig", "r_saved"} => wk[w].figs = 1

\* the only worker has started its second task after the render stage of its
\* first was cut by the bound with the figure drawn and saved
C19_Witness ==
    /\ num_workers = 1
    /\ wk[1].pc = "f_start"
    /\ wk[1].hour = 1
    /\ wk[1].figs = 0
    /\ log[0] = "PlotTimeout"
    /\ files[0] = 1

\* --------------------------------------------------------------------- C20
\* a (forecast_hour, filepath) pair is a sequence of two elements; a path is a
\* string of more than two characters
IsPair(x) == Len(x) = 2

\* C20: whenever process_full_run has returned, with or without pool fault,
\* every element of the returned list is a path, not a (hour, path) pair, and
\* the paths are in ascending order of their hours.
C20_SortedPathsAlways ==
    Done =>
        /\ \A i \in 1 .. Len(returned) : ~IsPair(returned[i])
        /\ \A i \in 1 .. Len(returned) : \E h \in Hours : returned[i] = Filepath(h)
        /\ \A i, j \in 1 .. Len(returned) :
              i < j => HourOf(returned[i]) < HourOf(returned[j])

\* What does hold after a pool fault: the list returned is the list of pairs
\* as collected, in arrival order.
C20_PairsAfterFault ==
    (Done /\ critical) =>
        /\ returned = generated_files
        /\ \A i \in 1 .. Len(returned) :
              /\ IsPair(returned[i])
              /\ returned[i][2] = Filepath(returned[i][1])
        /\ [i \in 1 .. Len(returned) |-> returned[i][1]]
              = SelectSeq(arrival, LAMBDA h : log[h] = "Saved")

====
